---- MODULE Spec2Model ----
(***************************************************************************)
(* Model of the lexical scanner of parse/lexer.go.                         *)
(*                                                                         *)
(* A rune is its code point (an integer); a string is a sequence of runes. *)
(* The embedded *bufio.Reader is the pair (r, lastRuneSize) over the       *)
(* input, counted in runes.  Scan and its two helpers are split at every   *)
(* call of ReadRune / UnreadRune, one action per call, so that each step   *)
(* touches the shared reader once.                                         *)
(***************************************************************************)
EXTENDS Integers, Sequences, FiniteSets, TLC

VARIABLES input, term, sync, r, lastRuneSize, lastOp, slot, callers, pc, ch, buf,
          start, ret, out

vars ==
    <<input, term, sync, r, lastRuneSize, lastOp, slot, callers, pc, ch, buf,
      start, ret, out>>

(* ------------------------------ bounds ------------------------------- *)

\* longest input enumerated over Alphabet
MaxLen == 4
\* Scan calls on the exhausted stream whose token is kept in the history
MaxEOF == 2
\* longest input scanned by two callers
MaxLenConc == 2

(* ----------------------------- code points --------------------------- *)

eof == 0

\* runes the bounded inputs are built from: NUL, newline, space, '!', '5',
\* '_', 'a'
Alphabet == {0, 10, 32, 33, 53, 95, 97}

\* runes of the inputs scanned by two callers: space, '!', 'a'
AlphabetConc == {32, 33, 97}

\* the characters of the switch of Scan other than eof
SymbolChars ==
    {35, 91, 93, 44, 46, 58, 59, 47, 42, 40, 41, 126, 8364, 36, 163, 165,
     167, 38, 61, 64, 37, 45, 95}

\* further runes scanned as one-character inputs: tab, CR, '0', '9', 'A',
\* 'Z', 'z', the diacritics, '{', U+00E0
OtherChars ==
    {9, 13, 48, 57, 65, 90, 122, 228, 214, 246, 196, 252, 220, 223, 123, 224}

\* "#today [x] 5€ ä_b"
Example ==
    <<35, 116, 111, 100, 97, 121, 32, 91, 120, 93, 32, 53, 8364, 32, 228,
      95, 98>>

BoundedSeq(S, n) == UNION {[1..k -> S] : k \in 0..n}

Inputs ==
    BoundedSeq(Alphabet, MaxLen)
        \cup {<<c>> : c \in SymbolChars \cup OtherChars}
        \cup {Example}

Procs == {1, 2}

(* --------------------------- pure functions -------------------------- *)

isWhitespace(c) == c = 32 \/ c = 9 \/ c = 10

isLetter_underscore(c) == (c >= 65 /\ c <= 122) \/ c \in {228, 214, 246, 196, 252, 220, 223}

isLetter(c) ==
    \/ (c >= 97 /\ c <= 122)
    \/ (c >= 65 /\ c <= 90)
    \/ c = 228 \/ c = 214
    \/ c = 246 \/ c = 196
    \/ c = 252 \/ c = 220
    \/ c = 223

isDigit(c) == c >= 48 /\ c <= 57

Tok(k, l) == [tok |-> k, lit |-> l]

SwitchToken_noFallthrough(c) ==
    CASE c = 35 -> Tok("HASHTAG", <<35>>)
      [] c = 91 -> Tok("STATUS_OPEN", <<91>>)
      [] c = 93 -> Tok("STATUS_CLOSE", <<93>>)
      [] c = 44 -> Tok("COMMA", <<44>>)
      [] c = 46 -> Tok("DOT", <<46>>)
      [] c = 58 -> Tok("COLON", <<58>>)
      [] c = 59 -> Tok("SEMICOLON", <<59>>)
      [] c = 47 -> Tok("SLASH", <<47>>)
      [] c = 42 -> Tok("ASTERISK", <<42>>)
      [] c = 41 -> Tok("BRACKET", <<c>>)
      [] c = 126 -> Tok("TILDE", <<126>>)
      [] c = 165 -> Tok("CURRENCY_SIGN", <<c>>)
      [] c = 167 -> Tok("PARAGRAPH", <<167>>)
      [] c = 38 -> Tok("AMPERSAND", <<38>>)
      [] c = 61 -> Tok("EQUALS", <<61>>)
      [] c = 64 -> Tok("AT", <<64>>)
      [] c = 37 -> Tok("PERCENT", <<37>>)
      [] c = 45 -> Tok("DASH", <<45>>)
      [] c = 95 -> Tok("UNDERSCORE", <<95>>)
      [] c = eof -> Tok("EOF", <<c>>)
      [] OTHER -> Tok("ILLEGAL", <<c>>)

\* the switch of Scan and the return after it
SwitchToken(c) ==
    CASE c = 35 -> Tok("HASHTAG", <<35>>)
      [] c = 91 -> Tok("STATUS_OPEN", <<91>>)
      [] c = 93 -> Tok("STATUS_CLOSE", <<93>>)
      [] c = 44 -> Tok("COMMA", <<44>>)
      [] c = 46 -> Tok("DOT", <<46>>)
      [] c = 58 -> Tok("COLON", <<58>>)
      [] c = 59 -> Tok("SEMICOLON", <<59>>)
      [] c = 47 -> Tok("SLASH", <<47>>)
      [] c = 42 -> Tok("ASTERISK", <<42>>)
      [] c = 40 \/ c = 41 -> Tok("BRACKET", <<c>>)
      [] c = 126 -> Tok("TILDE", <<126>>)
      [] c = 8364 \/ c = 36 \/ c = 163 \/ c = 165 -> Tok("CURRENCY_SIGN", <<c>>)
      [] c = 167 -> Tok("PARAGRAPH", <<167>>)
      [] c = 38 -> Tok("AMPERSAND", <<38>>)
      [] c = 61 -> Tok("EQUALS", <<61>>)
      [] c = 64 -> Tok("AT", <<64>>)
      [] c = 37 -> Tok("PERCENT", <<37>>)
      [] c = 45 -> Tok("DASH", <<45>>)
      [] c = 95 -> Tok("UNDERSCORE", <<95>>)
      [] c = eof -> Tok("EOF", <<c>>)
      [] OTHER -> Tok("ILLEGAL", <<c>>)

(* ------------------------- the buffered reader ----------------------- *)

\* s.ReadRune() succeeds while a rune is left
ReadOK == r < Len(input)

\* the err of s.ReadRune(): nil, or what the underlying stream reports once
\* the input is consumed, io.EOF or another error
ReadErr == IF ReadOK THEN "nil" ELSE term

read_runeError == IF ReadOK THEN input[r + 1] ELSE IF term = "io.EOF" THEN eof ELSE 65533

\* the rune s.read() returns: the next rune, or eof when ReadRune fails
read == IF ReadErr # "nil" THEN eof ELSE input[r + 1]

\* the effect of the ReadRune call inside s.read(), made by caller p, on the
\* reader; slot.reader is the caller whose rune UnreadRune would push back
ReadRune(p) ==
    /\ r' = IF ReadOK THEN r + 1 ELSE r
    /\ lastRuneSize' = IF ReadOK THEN 1 ELSE -1
    /\ lastOp' = IF ReadOK THEN "ReadRune_ok" ELSE "ReadRune_err"
    /\ slot' = IF ReadOK THEN [slot EXCEPT !.reader = p] ELSE slot

\* s.UnreadRune() called by p: fails, changing nothing, unless the last
\* operation on the reader was a successful ReadRune; slot.stolen records
\* that a rune read by another caller was pushed back
UnreadRune(p) ==
    IF lastRuneSize < 0 \/ r < lastRuneSize
    THEN /\ lastOp' = "UnreadRune_err"
         /\ UNCHANGED <<r, lastRuneSize, slot>>
    ELSE /\ r' = r - lastRuneSize
         /\ lastRuneSize' = -1
         /\ lastOp' = "UnreadRune_ok"
         /\ slot' = [slot EXCEPT !.stolen = @ \/ slot.reader # p]

(* ------------------------------ history ------------------------------ *)

RECURSIVE TrailingEOF(_)
TrailingEOF(o) ==
    IF o = <<>> \/ o[Len(o)].tok # "EOF" THEN 0
    ELSE 1 + TrailingEOF(SubSeq(o, 1, Len(o) - 1))

\* the tokens returned so far, in return order; of the calls made on the
\* exhausted stream only the first MaxEOF are kept
Record(p, t) ==
    IF start[p] = Len(input) /\ TrailingEOF(out) >= MaxEOF
    THEN out
    ELSE Append(out, t)

\* return t from Scan
Return(p, t) ==
    /\ ret' = [ret EXCEPT ![p] = t]
    /\ out' = Record(p, t)
    /\ pc' = [pc EXCEPT ![p] = "idle"]

(* ------------------------------- Scan -------------------------------- *)

NoToken == Tok("NONE", <<>>)

\* the scanner right after NewScanner, with nothing read; fixed for a run
\* are the input, how the stream ends, who calls Scan, and whether the
\* callers serialize their calls
Start(in, t, cs, sy) ==
    /\ input = in
    /\ term = t
    /\ sync = sy
    /\ r = 0
    /\ lastRuneSize = -1
    /\ lastOp = "none"
    /\ slot = [reader |-> 0, stolen |-> FALSE]
    /\ callers = cs
    /\ pc = [p \in Procs |-> "idle"]
    /\ ch = [p \in Procs |-> eof]
    /\ buf = [p \in Procs |-> <<>>]
    /\ start = [p \in Procs |-> 0]
    /\ ret = [p \in Procs |-> NoToken]
    /\ out = <<>>

\* one caller, a stream that ends with io.EOF
Init == \E in \in Inputs : Start(in, "io.EOF", {1}, FALSE)

\* under external synchronization a call starts only when no other is running
Serialized(p) == sync => \A q \in callers \ {p} : pc[q] = "idle"

\* ch := s.read()
ScanRead(p) ==
    /\ pc[p] = "idle"
    /\ Serialized(p)
    /\ ch' = [ch EXCEPT ![p] = read]
    /\ ReadRune(p)
    /\ start' = [start EXCEPT ![p] = r]
    /\ pc' = [pc EXCEPT ![p] = "Scan"]
    /\ UNCHANGED <<input, term, sync, callers, buf, ret, out>>

ScanWhitespace_noUnread(p) ==
    /\ pc[p] = "Scan"
    /\ isWhitespace(ch[p])
    /\ pc' = [pc EXCEPT ![p] = "scanWhitespace"]
    /\ UNCHANGED <<input, term, sync, r, lastRuneSize, lastOp, slot, callers, ch, buf, start, ret, out>>

\* if isWhitespace(ch) { s.UnreadRune(); return s.scanWhitespace() }
ScanWhitespace(p) ==
    /\ pc[p] = "Scan"
    /\ isWhitespace(ch[p])
    /\ UnreadRune(p)
    /\ pc' = [pc EXCEPT ![p] = "scanWhitespace"]
    /\ UNCHANGED <<input, term, sync, callers, ch, buf, start, ret, out>>

ScanIdent_noUnread(p) ==
    /\ pc[p] = "Scan"
    /\ ~isWhitespace(ch[p])
    /\ isLetter(ch[p]) \/ isDigit(ch[p])
    /\ pc' = [pc EXCEPT ![p] = "scanIdent"]
    /\ UNCHANGED <<input, term, sync, r, lastRuneSize, lastOp, slot, callers, ch, buf, start, ret, out>>

\* else if isLetter(ch) || isDigit(ch) { s.UnreadRune(); return s.scanIdent() }
ScanIdent(p) ==
    /\ pc[p] = "Scan"
    /\ ~isWhitespace(ch[p])
    /\ isLetter(ch[p]) \/ isDigit(ch[p])
    /\ UnreadRune(p)
    /\ pc' = [pc EXCEPT ![p] = "scanIdent"]
    /\ UNCHANGED <<input, term, sync, callers, ch, buf, start, ret, out>>

\* otherwise the switch on ch
ScanSwitch(p) ==
    /\ pc[p] = "Scan"
    /\ ~isWhitespace(ch[p])
    /\ ~(isLetter(ch[p]) \/ isDigit(ch[p]))
    /\ Return(p, SwitchToken(ch[p]))
    /\ UNCHANGED <<input, term, sync, r, lastRuneSize, lastOp, slot, callers, ch, buf, start>>

(* --------------------------- scanWhitespace -------------------------- *)

\* var buf bytes.Buffer; buf.WriteRune(s.read())
scanWhitespaceFirst(p) ==
    /\ pc[p] = "scanWhitespace"
    /\ buf' = [buf EXCEPT ![p] = <<read>>]
    /\ ReadRune(p)
    /\ pc' = [pc EXCEPT ![p] = "scanWhitespace_for"]
    /\ UNCHANGED <<input, term, sync, callers, ch, start, ret, out>>

\* ch := s.read() at the head of the loop
scanWhitespaceRead(p) ==
    /\ pc[p] = "scanWhitespace_for"
    /\ ch' = [ch EXCEPT ![p] = read]
    /\ ReadRune(p)
    /\ pc' = [pc EXCEPT ![p] = "scanWhitespace_if"]
    /\ UNCHANGED <<input, term, sync, callers, buf, start, ret, out>>

scanWhitespaceTest_unreadAtEOF(p) ==
    /\ pc[p] = "scanWhitespace_if"
    /\ IF ~isWhitespace(ch[p])
       THEN /\ UnreadRune(p)
            /\ Return(p, Tok("WS", buf[p]))
            /\ UNCHANGED buf
       ELSE /\ buf' = [buf EXCEPT ![p] = Append(buf[p], ch[p])]
            /\ pc' = [pc EXCEPT ![p] = "scanWhitespace_for"]
            /\ UNCHANGED <<r, lastRuneSize, lastOp, slot, ret, out>>
    /\ UNCHANGED <<input, term, sync, callers, ch, start>>

\* the three branches of the loop body, and return WS, buf.String()
scanWhitespaceTest(p) ==
    /\ pc[p] = "scanWhitespace_if"
    /\ IF ch[p] = eof
       THEN /\ Return(p, Tok("WS", buf[p]))
            /\ UNCHANGED <<r, lastRuneSize, lastOp, slot, buf>>
       ELSE IF ~isWhitespace(ch[p])
       THEN /\ UnreadRune(p)
            /\ Return(p, Tok("WS", buf[p]))
            /\ UNCHANGED buf
       ELSE /\ buf' = [buf EXCEPT ![p] = Append(buf[p], ch[p])]
            /\ pc' = [pc EXCEPT ![p] = "scanWhitespace_for"]
            /\ UNCHANGED <<r, lastRuneSize, lastOp, slot, ret, out>>
    /\ UNCHANGED <<input, term, sync, callers, ch, start>>

(* ----------------------------- scanIdent ----------------------------- *)

scanIdentFirst_keepBuf(p) ==
    /\ pc[p] = "scanIdent"
    /\ buf' = [buf EXCEPT ![p] = Append(buf[p], read)]
    /\ ReadRune(p)
    /\ pc' = [pc EXCEPT ![p] = "scanIdent_for"]
    /\ UNCHANGED <<input, term, sync, callers, ch, start, ret, out>>

\* var buf bytes.Buffer; buf.WriteRune(s.read())
scanIdentFirst(p) ==
    /\ pc[p] = "scanIdent"
    /\ buf' = [buf EXCEPT ![p] = <<read>>]
    /\ ReadRune(p)
    /\ pc' = [pc EXCEPT ![p] = "scanIdent_for"]
    /\ UNCHANGED <<input, term, sync, callers, ch, start, ret, out>>

\* ch := s.read() at the head of the loop
scanIdentRead(p) ==
    /\ pc[p] = "scanIdent_for"
    /\ ch' = [ch EXCEPT ![p] = read]
    /\ ReadRune(p)
    /\ pc' = [pc EXCEPT ![p] = "scanIdent_if"]
    /\ UNCHANGED <<input, term, sync, callers, buf, start, ret, out>>

scanIdentTest_lettersOnly(p) ==
    /\ pc[p] = "scanIdent_if"
    /\ IF ch[p] = eof
       THEN /\ Return(p, Tok("IDENT", buf[p]))
            /\ UNCHANGED <<r, lastRuneSize, lastOp, slot, buf>>
       ELSE IF ~isLetter(ch[p])
       THEN /\ UnreadRune(p)
            /\ Return(p, Tok("IDENT", buf[p]))
            /\ UNCHANGED buf
       ELSE /\ buf' = [buf EXCEPT ![p] = Append(buf[p], ch[p])]
            /\ pc' = [pc EXCEPT ![p] = "scanIdent_for"]
            /\ UNCHANGED <<r, lastRuneSize, lastOp, slot, ret, out>>
    /\ UNCHANGED <<input, term, sync, callers, ch, start>>

scanIdentTest_noBreakAtEOF(p) ==
    /\ pc[p] = "scanIdent_if"
    /\ IF ch[p] = eof
       THEN /\ pc' = [pc EXCEPT ![p] = "scanIdent_for"]
            /\ UNCHANGED <<r, lastRuneSize, lastOp, slot, buf, ret, out>>
       ELSE IF ~isLetter(ch[p]) /\ ~isDigit(ch[p])
       THEN /\ UnreadRune(p)
            /\ Return(p, Tok("IDENT", buf[p]))
            /\ UNCHANGED buf
       ELSE /\ buf' = [buf EXCEPT ![p] = Append(buf[p], ch[p])]
            /\ pc' = [pc EXCEPT ![p] = "scanIdent_for"]
            /\ UNCHANGED <<r, lastRuneSize, lastOp, slot, ret, out>>
    /\ UNCHANGED <<input, term, sync, callers, ch, start>>

\* the three branches of the loop body, and return IDENT, buf.String()
scanIdentTest(p) ==
    /\ pc[p] = "scanIdent_if"
    /\ IF ch[p] = eof
       THEN /\ Return(p, Tok("IDENT", buf[p]))
            /\ UNCHANGED <<r, lastRuneSize, lastOp, slot, buf>>
       ELSE IF ~isLetter(ch[p]) /\ ~isDigit(ch[p])
       THEN /\ UnreadRune(p)
            /\ Return(p, Tok("IDENT", buf[p]))
            /\ UNCHANGED buf
       ELSE /\ buf' = [buf EXCEPT ![p] = Append(buf[p], ch[p])]
            /\ pc' = [pc EXCEPT ![p] = "scanIdent_for"]
            /\ UNCHANGED <<r, lastRuneSize, lastOp, slot, ret, out>>
    /\ UNCHANGED <<input, term, sync, callers, ch, start>>

(* --------------------------- specifications -------------------------- *)

Next ==
    \/ \E p \in callers : ScanRead(p)
    \/ \E p \in callers : ScanWhitespace(p)
    \/ \E p \in callers : ScanIdent(p)
    \/ \E p \in callers : ScanSwitch(p)
    \/ \E p \in callers : scanWhitespaceFirst(p)
    \/ \E p \in callers : scanWhitespaceRead(p)
    \/ \E p \in callers : scanWhitespaceTest(p)
    \/ \E p \in callers : scanIdentFirst(p)
    \/ \E p \in callers : scanIdentRead(p)
    \/ \E p \in callers : scanIdentTest(p)

\* one caller making Scan calls one after the other
Spec == Init /\ [][Next]_vars

\* the caller keeps calling and every started step is taken
FairSpec == Spec /\ WF_vars(Next)

\* one caller, a stream whose reads fail with an error other than io.EOF
\* once the input is consumed
InitErr == \E in \in Inputs : Start(in, "error", {1}, FALSE)

ErrSpec == InitErr /\ [][Next]_vars

\* one caller or two callers of the same scanner, with or without external
\* synchronization of their Scan calls
InitConc ==
    \E in \in BoundedSeq(AlphabetConc, MaxLenConc), cs \in {{1}, {1, 2}}, sy \in BOOLEAN :
        Start(in, "io.EOF", cs, sy)

ConcSpec == InitConc /\ [][Next]_vars

TypeOK ==
    /\ r \in 0..Len(input)
    /\ lastRuneSize \in {-1, 1}
    /\ \A p \in Procs : pc[p] \in
         {"idle", "Scan", "scanWhitespace", "scanWhitespace_for",
          "scanWhitespace_if", "scanIdent", "scanIdent_for", "scanIdent_if"}

(* ------------------------- auxiliary notions ------------------------- *)

\* the caller of the sequential specifications
Caller == CHOOSE p \in Procs : \A q \in Procs : p <= q

EOFToken == Tok("EOF", <<0>>)

\* caller p returns from Scan in this step
Returns(p) == pc[p] # "idle" /\ pc'[p] = "idle"

\* the lexemes of the tokens other than EOF, concatenated in return order
RECURSIVE Lexemes(_)
Lexemes(o) ==
    IF o = <<>> THEN <<>>
    ELSE (IF Head(o).tok = "EOF" THEN <<>> ELSE Head(o).lit) \o Lexemes(Tail(o))

\* some call has returned an EOF token
EOFReturned == \E i \in 1..Len(out) : out[i].tok = "EOF"

(* ------------------------------- claims ------------------------------ *)

\* C1: whenever a Scan call has just returned EOF, the lexemes of the
\* tokens returned so far, EOF tokens left out, concatenate to the input.
C1_Lossless ==
    \A p \in callers :
        (pc[p] = "idle" /\ ret[p].tok = "EOF") => Lexemes(out) = input

\* C2: once a Scan call has returned EOF, every later Scan call returns
\* EOF with the lexeme made of the one character of value zero.
C2_IdempotentEOF ==
    [][\A p \in callers : (EOFReturned /\ Returns(p)) => ret'[p] = EOFToken]_vars

\* C3: every Scan call returns, Scan calls keep returning, and from some
\* point on every returned token is EOF.
C3_Totality ==
    /\ (pc[Caller] # "idle") ~> (pc[Caller] = "idle")
    /\ []<><<Returns(Caller)>>_vars
    /\ <>[](ret[Caller] = EOFToken)

\* C3 witness: after a whitespace run and an identifier run were returned,
\* the stream is exhausted and EOF has been returned more than once.
C3_Witness ==
    /\ \E i \in 1..Len(out) : out[i].tok = "WS" /\ Len(out[i].lit) > 1
    /\ \E i \in 1..Len(out) : out[i].tok = "IDENT" /\ Len(out[i].lit) > 1
    /\ TrailingEOF(out) >= 2
    /\ pc[Caller] = "idle"

\* C4: no two consecutive returned tokens are both WS, or both IDENT.
C4_RunMaximal ==
    \A i \in 1..(Len(out) - 1) :
        /\ ~(out[i].tok = "WS" /\ out[i + 1].tok = "WS")
        /\ ~(out[i].tok = "IDENT" /\ out[i + 1].tok = "IDENT")

\* a run is returned in this step after a character was read that ended it
RunEndedByChar(p) ==
    /\ pc[p] \in {"scanWhitespace_if", "scanIdent_if"}
    /\ pc'[p] = "idle"
    /\ lastOp = "ReadRune_ok"

\* C5: when a run is ended by a character read from the stream, the reader
\* is left just before that character, which is not in the lexeme, and every
\* returned lexeme starts with the first character unconsumed at the call.
C5_Boundary ==
    [][\A p \in callers :
        /\ RunEndedByChar(p) =>
              /\ r' = start[p] + Len(ret'[p].lit)
              /\ r' < Len(input)
              /\ input[r' + 1] = ch[p]
        /\ (Returns(p) /\ start[p] < Len(input)) =>
              /\ ret'[p].lit # <<>>
              /\ ret'[p].lit[1] = input[start[p] + 1]]_vars

\* the tokens the example input is said to give, before EOF
ExampleTokens ==
    << Tok("HASHTAG", <<35>>), Tok("IDENT", <<116, 111, 100, 97, 121>>),
       Tok("WS", <<32>>), Tok("STATUS_OPEN", <<91>>), Tok("IDENT", <<120>>),
       Tok("STATUS_CLOSE", <<93>>), Tok("WS", <<32>>), Tok("IDENT", <<53>>),
       Tok("CURRENCY_SIGN", <<8364>>), Tok("WS", <<32>>),
       Tok("IDENT", <<228>>), Tok("UNDERSCORE", <<95>>), Tok("IDENT", <<98>>) >>

\* C6: on "#today [x] 5€ ä_b" the tokens returned are, in order, the
\* thirteen tokens of ExampleTokens and then EOF; the stream is exhausted
\* only once all thirteen were returned.
C6_Example ==
    input = Example =>
        /\ \A i \in 1..Len(out) :
              out[i] = IF i <= Len(ExampleTokens) THEN ExampleTokens[i] ELSE EOFToken
        /\ (r = Len(input) /\ pc[Caller] = "idle") => Len(out) >= Len(ExampleTokens)

\* C6 witness: the example was scanned up to and including an EOF token.
C6_Witness == input = Example /\ Len(out) = Len(ExampleTokens) + 1

\* the kind the symbol table gives each of its characters
TableKind(c) ==
    CASE c = 91 -> "STATUS_OPEN"
      [] c = 93 -> "STATUS_CLOSE"
      [] c = 47 -> "SLASH"
      [] c = 59 -> "SEMICOLON"
      [] c = 58 -> "COLON"
      [] c = 42 -> "ASTERISK"
      [] c = 44 -> "COMMA"
      [] c = 46 -> "DOT"
      [] c = 35 -> "HASHTAG"
      [] c \in {40, 41} -> "BRACKET"
      [] c \in {36, 8364, 163, 165} -> "CURRENCY_SIGN"
      [] c = 167 -> "PARAGRAPH"
      [] c = 38 -> "AMPERSAND"
      [] c = 61 -> "EQUALS"
      [] c = 64 -> "AT"
      [] c = 37 -> "PERCENT"
      [] c = 45 -> "DASH"
      [] c = 95 -> "UNDERSCORE"
      [] c = 126 -> "TILDE"

\* C7: on the one-character input c, c in the symbol table, the first
\* token has the table's kind for c and the lexeme c, every later token is
\* EOF, and the stream is exhausted only once the first token was returned.
C7_SingleChar ==
    \A c \in SymbolChars :
        input = <<c>> =>
            /\ \A i \in 1..Len(out) :
                  out[i] = IF i = 1 THEN Tok(TableKind(c), <<c>>) ELSE EOFToken
            /\ (r = 1 /\ pc[Caller] = "idle") => Len(out) >= 1

\* C7 witness: "(" was scanned, and then EOF was returned.
C7_Witness == input = <<40>> /\ Len(out) = 2 /\ out[1].lit = <<40>>

\* a character that is no whitespace, letter, digit or table character
Unclassified(c) ==
    ~isWhitespace(c) /\ ~isLetter(c) /\ ~isDigit(c) /\ c \notin SymbolChars

\* the characters of the ILLEGAL tokens of o, in order
RECURSIVE IllegalLexemes(_)
IllegalLexemes(o) ==
    IF o = <<>> THEN <<>>
    ELSE (IF Head(o).tok = "ILLEGAL" THEN Head(o).lit ELSE <<>>)
             \o IllegalLexemes(Tail(o))

\* C8: once the input is consumed, the ILLEGAL tokens returned are, in
\* order, one per input character that is no whitespace, letter, digit or
\* table character, each with that character as its lexeme.
C8_Illegal ==
    (r = Len(input) /\ pc[Caller] = "idle") =>
        IllegalLexemes(out) = SelectSeq(input, Unclassified)

\* C9: a Scan call returns EOF exactly when no character was unconsumed at
\* the call, and a call that returns EOF consumes nothing.
C9_EOFOnlyAtEnd ==
    [][\A p \in callers : Returns(p) =>
        /\ (ret'[p].tok = "EOF") <=> (start[p] = Len(input))
        /\ (ret'[p].tok = "EOF") => r' = start[p]]_vars

\* UnreadRune is called in this step
UnreadCalled ==
    lastOp' \in {"UnreadRune_ok", "UnreadRune_err"} /\ lastOp' # lastOp

\* C10: every UnreadRune directly follows a successful ReadRune and
\* succeeds, moving the reader back by the one character just read.
C10_Pushback ==
    [][UnreadCalled =>
        /\ lastOp = "ReadRune_ok"
        /\ lastOp' = "UnreadRune_ok"
        /\ r' = r - 1
        /\ r' >= 0]_vars

\* C10 witness: a whitespace run was returned after the character that
\* ended it was pushed back.
C10_Witness ==
    /\ lastOp = "UnreadRune_ok"
    /\ pc[Caller] = "idle"
    /\ ret[Caller].tok = "WS"
    /\ r < Len(input)

\* the character classes as the specification lists them
WSChars == {32, 9, 10}

LetterChars == (97..122) \cup (65..90) \cup {228, 214, 246, 196, 252, 220, 223}

DigitChars == 48..57

\* C11: every returned WS token has a non-empty lexeme of space, tab and
\* newline only, every IDENT token a non-empty lexeme of letters and digits
\* only, and every other token a lexeme of exactly one character.
C11_KindLexeme ==
    \A i \in 1..Len(out) :
        LET t == out[i] IN
        CASE t.tok = "WS" ->
                 t.lit # <<>> /\ \A j \in 1..Len(t.lit) : t.lit[j] \in WSChars
          [] t.tok = "IDENT" ->
                 /\ t.lit # <<>>
                 /\ \A j \in 1..Len(t.lit) : t.lit[j] \in LetterChars \cup DigitChars
          [] OTHER -> Len(t.lit) = 1

\* C11 witness: a whitespace run of two characters, an identifier run and a
\* one-character token were returned.
C11_Witness ==
    /\ \E i \in 1..Len(out) : out[i].tok = "WS" /\ Len(out[i].lit) = 2
    /\ \E i \in 1..Len(out) : out[i].tok = "IDENT"
    /\ \E i \in 1..Len(out) : out[i].tok = "UNDERSCORE"

\* the input not yet consumed when the reader is at position k
Remainder(k) == SubSeq(input, k + 1, Len(input))

\* the longest prefix of s made of characters of S only
RECURSIVE LongestPrefix(_, _)
LongestPrefix(s, S) ==
    IF s = <<>> \/ Head(s) \notin S THEN <<>>
    ELSE <<Head(s)>> \o LongestPrefix(Tail(s), S)

\* C12: a Scan call whose first unconsumed character is a letter or a digit
\* returns IDENT with the longest prefix of letters and digits of the
\* unconsumed input; one whose first unconsumed character is whitespace
\* returns WS with the longest prefix of space, tab and newline.
C12_LongestPrefix ==
    [][\A p \in callers : (Returns(p) /\ start[p] < Len(input)) =>
        LET rest == Remainder(start[p]) IN
        /\ rest[1] \in LetterChars \cup DigitChars =>
              ret'[p] = Tok("IDENT", LongestPrefix(rest, LetterChars \cup DigitChars))
        /\ rest[1] \in WSChars =>
              ret'[p] = Tok("WS", LongestPrefix(rest, WSChars))]_vars

\* C12 witness: an identifier run that starts with a digit and goes on with
\* a letter was returned, ended by a character that is still unconsumed.
C12_Witness ==
    /\ pc[Caller] = "idle"
    /\ ret[Caller] = Tok("IDENT", <<53, 97>>)
    /\ r < Len(input)
    /\ start[Caller] > 0

\* the token a stream that ends after s gives to one Scan call: a function
\* of s alone (U+0000 is given the EOF token, as the switch of Scan does)
ScanOf(s) ==
    IF s = <<>> THEN EOFToken
    ELSE IF s[1] \in WSChars THEN Tok("WS", LongestPrefix(s, WSChars))
    ELSE IF s[1] \in LetterChars \cup DigitChars
         THEN Tok("IDENT", LongestPrefix(s, LetterChars \cup DigitChars))
    ELSE IF s[1] \in SymbolChars THEN Tok(TableKind(s[1]), <<s[1]>>)
    ELSE IF s[1] = 0 THEN EOFToken
    ELSE Tok("ILLEGAL", <<s[1]>>)

\* the number of characters of s that call consumes: the lexeme, and the
\* U+0000 that ends a run
ConsumedOf(s) ==
    IF s = <<>> THEN 0
    ELSE LET n == Len(ScanOf(s).lit) IN
         IF ScanOf(s).tok \in {"WS", "IDENT"} /\ n < Len(s) /\ s[n + 1] = 0
         THEN n + 1 ELSE n

\* C13: on a stream whose reads fail with an error other than io.EOF once
\* the input is consumed, every Scan call returns the token a stream ending
\* at that position gives: the run read so far when the failing read is in a
\* run loop, EOF with the zero-character lexeme when it is the first read of
\* Scan, and EOF again on every call after the failure.
C13_ReadFailure ==
    [][\A p \in callers : (term = "error" /\ Returns(p)) =>
        /\ ret'[p] = ScanOf(Remainder(start[p]))
        /\ lastOp = "ReadRune_err" =>
              /\ pc[p] \in {"scanWhitespace_if", "scanIdent_if"} =>
                    /\ ret'[p].tok \in {"WS", "IDENT"}
                    /\ ret'[p].lit = buf[p]
                    /\ buf[p] = Remainder(start[p])
              /\ pc[p] = "Scan" => ret'[p] = EOFToken
        /\ start[p] = Len(input) => ret'[p] = EOFToken]_vars

\* C13 witness: a read failed inside an identifier run, the run was
\* returned, and the next call returned EOF.
C13_Witness ==
    /\ term = "error"
    /\ Len(out) >= 2
    /\ out[Len(out) - 1].tok = "IDENT"
    /\ out[Len(out)] = EOFToken
    /\ lastOp = "ReadRune_err"
    /\ pc[Caller] = "idle"

\* C14: the token a Scan call returns and the number of characters it
\* consumes are the values at the unconsumed input of two functions of the
\* unconsumed input alone.
C14_NoHiddenState ==
    [][\A p \in callers : Returns(p) =>
        /\ ret'[p] = ScanOf(Remainder(start[p]))
        /\ r' = start[p] + ConsumedOf(Remainder(start[p]))]_vars

\* C14 witness: the same remainder "a" was reached after different
\* prefixes; here after two tokens, the identifier "a" being the third.
C14_Witness ==
    /\ Len(out) = 3
    /\ out[3] = Tok("IDENT", <<97>>)
    /\ start[Caller] = Len(input) - 1
    /\ out[1].tok # out[2].tok
    /\ pc[Caller] = "idle"

\* the tokens one caller gets from a stream that ends after s, before EOF
RECURSIVE TokensOf(_)
TokensOf(s) ==
    IF s = <<>> THEN <<>>
    ELSE <<ScanOf(s)>> \o TokensOf(SubSeq(s, ConsumedOf(s) + 1, Len(s)))

\* a token of a run kind holding a character that is not of its class
WrongClass(t) ==
    \/ t.tok = "WS" /\ \E j \in 1..Len(t.lit) : t.lit[j] \notin WSChars
    \/ t.tok = "IDENT" /\ \E j \in 1..Len(t.lit) : t.lit[j] \notin LetterChars \cup DigitChars

\* C15: when the Scan calls on one scanner are serialized, or made by one
\* caller, the tokens returned are in order those a single caller gets, no
\* UnreadRune fails and none pushes back another caller's character.  (The
\* unsynchronized executions that go wrong are those of C15_Witness.)
C15_Serialized ==
    (sync \/ Cardinality(callers) = 1) =>
        /\ \A i \in 1..Len(out) :
              out[i] = IF i <= Len(TokensOf(input)) THEN TokensOf(input)[i] ELSE EOFToken
        /\ ~slot.stolen
        /\ lastOp # "UnreadRune_err"

\* C15 witness: two unsynchronized callers have consumed an input without
\* U+0000; an UnreadRune pushed back a character the other caller had read,
\* a run token holds a character of the wrong class, and a character of the
\* input is in no returned lexeme.
C15_Witness ==
    /\ ~sync
    /\ callers = {1, 2}
    /\ \A i \in 1..Len(input) : input[i] # 0
    /\ \A p \in callers : pc[p] = "idle"
    /\ r = Len(input)
    /\ slot.stolen
    /\ \E i \in 1..Len(out) : WrongClass(out[i])
    /\ \E k \in 1..Len(input) :
          \A i \in 1..Len(out) : \A j \in 1..Len(out[i].lit) : out[i].lit[j] # input[k]

====
